---------------------------- MODULE Spec2Model ----------------------------
(***************************************************************************)
(* A model of vastwatch: the retrying fetcher (client.search_offers) and   *)
(* the collector's poll loop (collector.main) writing to the snapshot      *)
(* store.                                                                  *)
(*                                                                         *)
(* Two specifications share the module:                                    *)
(*   FetchSpec  one call of search_offers, one action per iteration of its *)
(*              attempt loop, against every upstream outcome;              *)
(*   Spec       the poll loop of collector.main, one action per statement  *)
(*              group of a cycle, with search_offers run to completion     *)
(*              (RunSearch) inside each fetch step.                        *)
(* Durations are whole seconds.                                            *)
(***************************************************************************)
EXTENDS Integers, Sequences, FiniteSets, TLC

VARIABLES
    \* ---- search_offers (client.py) ----
    fpc,            \* "idle" | "running" | "done": position of the call
    attempt,        \* loop variable of `for attempt in range(max_attempts)`
    requests,       \* number of session.post calls issued by this call
    history,        \* statuses of the outcomes received so far (0 = transport failure)
    lastResp,       \* the outcome of the latest request
    lastSleep,      \* the sleep taken after the latest request, if any
    sleeps,         \* number of sleeps taken by this call
    result,         \* how the call ended
    \* ---- collector.main (collector.py) ----
    pc,             \* position of main
    poll_interval,  \* main's poll_interval
    backoff_attempt,\* main's backoff_attempt
    delay,          \* main's delay, as last computed by an except block
    now,            \* the UTC clock, seconds
    ts,             \* main's ts
    available,      \* result of the first search_offers of the cycle
    rented,         \* result of the second
    unavailable,    \* result of the third
    pending,        \* rows inserted on the connection and not yet committed
    committed,      \* rows of offers_raw visible to readers
    raised,         \* the exception travelling to an except block
    cycle,          \* number of cycles started
    cycleLog,       \* per started cycle: its ts, the fetches that returned, its batch
    lastCycle,      \* "none" | "ok" | "failed": how the latest finished cycle ended
    \* ---- normalize (client.py) ----
    npc,            \* "off" | "call" | "done": position of one normalize call
    noffer,         \* its offer argument: raw key -> JSON value
    nts,            \* its ts argument
    nsrc,           \* its source_state argument
    nres,           \* how it ended: the record returned or the exception raised
    \* ---- _run_occupancy (report.py) ----
    opc,            \* "off" | "call" | "loop" | "done": position of one report
    store,          \* the rows of offers_raw
    oargs,          \* the arguments of the report
    orows,          \* rows: what the windowed query returned, in its order
    oidx,           \* idx: the row the loop is at (from 1)
    stats,          \* stats: offer_id -> accumulators
    credited,       \* per row processed, the interval its state was held for
    oout            \* what the report printed and how it exited

fvars == <<fpc, attempt, requests, history, lastResp, lastSleep, sleeps, result>>
lvars == <<pc, poll_interval, backoff_attempt, delay, now, ts, available, rented,
           unavailable, pending, committed, raised, cycle, cycleLog, lastCycle>>
nvars == <<npc, noffer, nts, nsrc, nres>>
ovars == <<opc, store, oargs, orows, oidx, stats, credited, oout>>
xvars == <<nvars, ovars>>
vars == <<fpc, attempt, requests, history, lastResp, lastSleep, sleeps, result,
          pc, poll_interval, backoff_attempt, delay, now, ts, available, rented,
          unavailable, pending, committed, raised, cycle, cycleLog, lastCycle,
          npc, noffer, nts, nsrc, nres,
          opc, store, oargs, orows, oidx, stats, credited, oout>>

\* no normalize call is being followed
NormalizeOff ==
    /\ npc = "off"
    /\ noffer = <<>>
    /\ nts = 0
    /\ nsrc = <<>>
    /\ nres = <<>>

\* the report has printed nothing
NoOutput == [kind |-> "none", code |-> 0, sorted |-> <<>>, rows |-> <<>>]

\* no report is being followed
OccupancyOff ==
    /\ opc = "off"
    /\ store = {}
    /\ oargs = <<>>
    /\ orows = <<>>
    /\ oidx = 0
    /\ stats = <<>>
    /\ credited = <<>>
    /\ oout = NoOutput

Min(a, b) == IF a <= b THEN a ELSE b
Max(a, b) == IF a >= b THEN a ELSE b

-----------------------------------------------------------------------------
(* client.py: constants                                                    *)

VAST_MIN_POLL_INTERVAL_SEC == 60
BACKOFF_BASE_SEC == VAST_MIN_POLL_INTERVAL_SEC * 6
BACKOFF_CAP_SEC == BACKOFF_BASE_SEC * 4
max_attempts == 5

\* the statuses search_offers retries
RetriedStatuses == {429, 500, 502, 503, 504}


-----------------------------------------------------------------------------
(* JSON values as the fetcher sees them.  A value is a record              *)
(*   [t, truthy, elems]: t its JSON type, truthy its Python truth value,   *)
(*   elems the elements when it is an array.                               *)
(* A raw offer (an element of the offers array) is a record                *)
(*   [t, id, gpu_name]: t = "obj" for a JSON object, "num" for a bare      *)
(*   number; gpu_name = "str" or "list" is the JSON type of its gpu_name.  *)

Raw(i, g) == [t |-> "obj", id |-> i, gpu_name |-> g]
RawNum == [t |-> "num", id |-> 0, gpu_name |-> "str"]

JList(es) == [t |-> "list", truthy |-> (Len(es) > 0), elems |-> es]
JNull == [t |-> "null", truthy |-> FALSE, elems |-> <<>>]
JZero == [t |-> "num", truthy |-> FALSE, elems |-> <<>>]
JStr == [t |-> "str", truthy |-> TRUE, elems |-> <<>>]
JObj == [t |-> "obj", truthy |-> TRUE, elems |-> <<>>]

\* a top-level body: t its JSON type, items its members in document order
Field(k, v) == [k |-> k, v |-> v]
BObj(items) == [t |-> "obj", items |-> items]
BNonObj(t) == [t |-> t, items |-> <<>>]
Malformed == [t |-> "malformed", items |-> <<>>]

L0 == JList(<<>>)
L1 == JList(<<Raw(1, "str")>>)
L2 == JList(<<Raw(2, "str"), Raw(1, "str")>>)

\* bodies whose only array sits under the key offers
OffersOnlyBodies ==
    { BObj(<<Field("offers", L1)>>),
      BObj(<<Field("offers", L2), Field("count", JZero)>>),
      BObj(<<Field("offers", L0)>>),
      BObj(<<Field("success", JStr), Field("offers", L0)>>) }

\* bodies with an offers array and another array
OffersPlusBodies ==
    { BObj(<<Field("offers", L0), Field("matches", L1)>>),
      BObj(<<Field("extra", L2), Field("offers", L0)>>),
      BObj(<<Field("extra", L2), Field("offers", L1)>>) }

\* bodies whose array sits under another key
OtherKeyBodies ==
    { BObj(<<Field("matches", L1)>>),
      BObj(<<Field("result", L2), Field("data", L1)>>),
      BObj(<<Field("offers", JObj), Field("result", L0)>>),
      BObj(<<Field("offers", JStr), Field("rows", L1), Field("more", L2)>>),
      BObj(<<Field("msg", JStr), Field("rows", L0)>>) }

\* JSON objects with no array value
NoArrayBodies ==
    { BObj(<<>>),
      BObj(<<Field("offers", JNull)>>),
      BObj(<<Field("offers", JObj), Field("error", JStr)>>) }

\* JSON documents that are not objects
NonObjectBodies == { BNonObj("list"), BNonObj("null"), BNonObj("num") }

Bodies == OffersOnlyBodies \cup OffersPlusBodies \cup OtherKeyBodies
            \cup NoArrayBodies \cup NonObjectBodies \cup {Malformed}

(* dict.get(key): the value of the member named key, None when absent      *)
RECURSIVE DictGetFrom(_, _, _)
DictGetFrom(items, key, i) ==
    IF i > Len(items) THEN JNull
    ELSE IF items[i].k = key THEN items[i].v
    ELSE DictGetFrom(items, key, i + 1)
DictGet(items, key) == DictGetFrom(items, key, 1)

(* client.py 116-121: a or b or c or d                                     *)
OrChain(items) ==
    LET a == DictGet(items, "offers")
        b == DictGet(items, "matches")
        c == DictGet(items, "data")
        d == DictGet(items, "result")
    IN  IF a.truthy THEN a ELSE IF b.truthy THEN b ELSE IF c.truthy THEN c ELSE d

(* client.py 125-127: the first array among data.values()                  *)
RECURSIVE FirstListFrom(_, _)
FirstListFrom(items, i) ==
    IF i > Len(items) THEN JNull
    ELSE IF items[i].v.t = "list" THEN items[i].v
    ELSE FirstListFrom(items, i + 1)
FirstList(items) == FirstListFrom(items, 1)

(* How an iteration of the attempt loop ends.                              *)
Ret(v) == [act |-> "return", exc |-> "none", status |-> -1, value |-> v, about |-> -1]
Raise(e, st, ab) == [act |-> "raise", exc |-> e, status |-> st, value |-> <<>>, about |-> ab]
Retry == [act |-> "retry", exc |-> "none", status |-> -1, value |-> <<>>, about |-> -1]

(* An upstream outcome of one session.post.                                *)
(*   kind "transport": requests.RequestException was raised;               *)
(*   kind "http": a response with status, the Retry-After and Content-Type *)
(*   headers (NoHeader when absent) and the body.                          *)
NoHeader == "<absent>"
Transport == [kind |-> "transport", status |-> 0, retry_after |-> NoHeader,
              ctype |-> NoHeader, body |-> Malformed]
Http(st, ra, ct, b) == [kind |-> "http", status |-> st, retry_after |-> ra,
                        ctype |-> ct, body |-> b]

HttpDate == "Wed, 04 Nov 2026 07:28:00 GMT"
RetryAfterValues == {NoHeader, "", "0", "30", "2000", "-5", "inf", HttpDate}
JsonType == "application/json"
ContentTypes == {JsonType, "Application/JSON; charset=utf-8", "text/html", NoHeader}

(* 'json' in content_type.lower(), with resp.headers.get(.., '')           *)
HasJson(ct) == ct \in {"application/json", "Application/JSON; charset=utf-8"}

(* float(retry_after): ok = FALSE when it raises ValueError; fin = FALSE   *)
(* for the infinite float                                                  *)
ToFloat(s) ==
    CASE s = "0"    -> [ok |-> TRUE, fin |-> TRUE, v |-> 0]
      [] s = "30"   -> [ok |-> TRUE, fin |-> TRUE, v |-> 30]
      [] s = "2000" -> [ok |-> TRUE, fin |-> TRUE, v |-> 2000]
      [] s = "-5"   -> [ok |-> TRUE, fin |-> TRUE, v |-> -5]
      [] s = "inf"  -> [ok |-> TRUE, fin |-> FALSE, v |-> 0]
      [] OTHER      -> [ok |-> FALSE, fin |-> TRUE, v |-> 0]

(* time.sleep(x) raises ValueError for a negative x and OverflowError for  *)
(* an x beyond the platform's time range                                   *)
SleepAccepts(f) == f.fin /\ f.v >= 0

\* Python truth value of a header: absent (None) and "" are false
HeaderTruthy(h) == h # NoHeader /\ h # ""

\* BackoffDelay as it would be with a delay that doubles with each attempt
BackoffDelay_Doubling(att) == Min(BACKOFF_CAP_SEC, BACKOFF_BASE_SEC * (2 ^ (Max(att, 1) - 1)))

(* client.py 37-42 _backoff_sleep: the delay before jitter                 *)
BackoffDelay(att) == Min(BACKOFF_CAP_SEC, BACKOFF_BASE_SEC * Max(att, 1))

\* random.uniform(0, delay * 0.1), drawn as 0, 5% or 10% of delay
JitterFractions == {0, 1, 2}
Jitter(d, jf) == (d * jf) \div 20

NoSleep == [kind |-> "none", dur |-> 0, base |-> 0]
BackoffSleep(att, jf) ==
    LET d == BackoffDelay(att)
    IN  [kind |-> "backoff", dur |-> d + Jitter(d, jf), base |-> d]

(* client.py 134-141: the sleep after a retried status.  Whatever float or *)
(* time.sleep raises, the except turns into the computed backoff.          *)
RetrySleep(att, retry_after, jf) ==
    IF HeaderTruthy(retry_after)
    THEN LET f == ToFloat(retry_after)
         IN  IF f.ok /\ SleepAccepts(f)
             THEN [kind |-> "retry_after", dur |-> f.v, base |-> f.v]
             ELSE BackoffSleep(att + 1, jf)
    ELSE BackoffSleep(att + 1, jf)

\* Handle200 as it would be without the search for another array
Handle200_NoFallback(o) ==
    IF ~HasJson(o.ctype) THEN Raise("VastAPIError", -1, 200)
    ELSE IF o.body.t = "malformed" THEN Raise("VastAPIError", -1, 200)
    ELSE IF o.body.t # "obj" THEN Raise("AttributeError", -1, 200)
    ELSE LET offers == OrChain(o.body.items)
         IN  IF offers.t = "list" THEN Ret(offers.elems)
             ELSE Raise("VastAPIError", -1, 200)

(* client.py 101-129: a 200 response.  `about` is the status the message   *)
(* of the error describes (0 for a transport failure).                     *)
Handle200(o) ==
    IF ~HasJson(o.ctype) THEN Raise("VastAPIError", -1, 200)
    ELSE IF o.body.t = "malformed" THEN Raise("VastAPIError", -1, 200)
    ELSE IF o.body.t # "obj" THEN Raise("AttributeError", -1, 200)   \* data.get on a non-dict
    ELSE LET offers == OrChain(o.body.items)
         IN  IF offers.t = "list" THEN Ret(offers.elems)
             ELSE LET v == FirstList(o.body.items)
                  IN  IF v.t = "list" THEN Ret(v.elems)
                      ELSE Raise("VastAPIError", -1, 200)

\* IsRetried as it would be if every error status were retried
IsRetried_AnyError(st) == st >= 400

(* client.py 131: resp.status_code in (429, 500, 502, 503, 504)            *)
IsRetried(st) == st \in RetriedStatuses

\* MayRetry as it would be off by one: the last attempt also retries
MayRetry_OffByOne(att) == att < max_attempts

(* client.py 96, 132: attempt < max_attempts - 1                           *)
MayRetry(att) == att < max_attempts - 1

(* client.py 93-156: one iteration of the attempt loop on outcome o, with  *)
(* jitter draw jf: how it ends and the sleep it takes.                     *)
Iteration(att, o, jf) ==
    IF o.kind = "transport"
    THEN IF MayRetry(att)
         THEN [end |-> Retry, sleep |-> BackoffSleep(att + 1, jf)]
         ELSE [end |-> Raise("VastAPIError", -1, 0), sleep |-> NoSleep]
    ELSE IF o.status = 200
    THEN [end |-> Handle200(o), sleep |-> NoSleep]
    ELSE IF IsRetried(o.status)
    THEN IF MayRetry(att)
         THEN [end |-> Retry, sleep |-> RetrySleep(att, o.retry_after, jf)]
         ELSE [end |-> Raise("VastAPIError", o.status, o.status), sleep |-> NoSleep]
    ELSE [end |-> Raise("VastAPIError", o.status, o.status), sleep |-> NoSleep]

(* The outcomes the upstream is made to produce.                           *)
RetriedOutcomes ==
    { Http(st, ra, NoHeader, Malformed) : st \in RetriedStatuses, ra \in RetryAfterValues }
OtherStatusOutcomes ==
    { Http(st, ra, NoHeader, Malformed) : st \in {501, 505}, ra \in {NoHeader, "30"} }
      \cup { Http(st, NoHeader, NoHeader, Malformed) : st \in {204, 400, 404} }
OkOutcomes ==
    { Http(200, NoHeader, JsonType, b) : b \in Bodies }
      \cup { Http(200, NoHeader, ct, BObj(<<Field("offers", L1)>>)) : ct \in ContentTypes }
Outcomes == {Transport} \cup RetriedOutcomes \cup OtherStatusOutcomes \cup OkOutcomes

-----------------------------------------------------------------------------
(* search_offers, step by step                                             *)

NoResult == [act |-> "none", exc |-> "none", status |-> -1, value |-> <<>>, about |-> -1]

FetcherIdle ==
    /\ fpc = "idle"
    /\ attempt = 0
    /\ requests = 0
    /\ history = <<>>
    /\ lastResp = Transport
    /\ lastSleep = NoSleep
    /\ sleeps = 0
    /\ result = NoResult

(* client.py 90-92: the session is made and the loop entered               *)
FCall ==
    /\ fpc = "idle"
    /\ fpc' = "running"
    /\ attempt' = 0
    /\ UNCHANGED <<requests, history, lastResp, lastSleep, sleeps, result>>
    /\ UNCHANGED <<lvars, xvars>>

(* client.py 92-159: one iteration: the request, its classification, the   *)
(* sleep and `continue`, or the return or raise that ends the call.        *)
FAttempt ==
    /\ fpc = "running"
    /\ \E o \in Outcomes, jf \in JitterFractions :
         LET it == Iteration(attempt, o, jf)
         IN  /\ requests' = requests + 1
             /\ history' = Append(history, o.status)
             /\ lastResp' = o
             /\ lastSleep' = it.sleep
             /\ sleeps' = sleeps + (IF it.sleep.kind = "none" THEN 0 ELSE 1)
             /\ IF it.end.act = "retry"
                THEN /\ attempt' = attempt + 1
                     /\ IF attempt + 1 < max_attempts
                        THEN fpc' = "running" /\ result' = result
                        ELSE \* client.py 159, after the loop
                             fpc' = "done" /\ result' = Raise("VastAPIError", -1, -1)
                ELSE /\ attempt' = attempt
                     /\ fpc' = "done"
                     /\ result' = it.end
    /\ UNCHANGED <<lvars, xvars>>


\* the poll loop has not been started
LoopOff ==
    /\ pc = "off"
    /\ poll_interval = 0
    /\ backoff_attempt = 0
    /\ delay = 0
    /\ now = 0
    /\ ts = 0
    /\ available = <<>>
    /\ rented = <<>>
    /\ unavailable = <<>>
    /\ pending = <<>>
    /\ committed = <<>>
    /\ raised = NoResult
    /\ cycle = 0
    /\ cycleLog = <<>>
    /\ lastCycle = "none"

FInit ==
    /\ FetcherIdle
    /\ NormalizeOff
    /\ OccupancyOff
    /\ LoopOff

FNext == FCall \/ FAttempt

FetchSpec == FInit /\ [][FNext]_vars

-----------------------------------------------------------------------------
(* search_offers run to completion, as the poll loop calls it.             *)

(* The call against the outcomes outs (the upstream repeats the last one   *)
(* when the call asks for more), from iteration att on.                    *)
RECURSIVE RunFrom(_, _, _, _, _)
RunFrom(att, outs, jf, nreq, slept) ==
    IF att >= max_attempts
    THEN [end |-> Raise("VastAPIError", -1, -1), requests |-> nreq, slept |-> slept]
    ELSE LET o == outs[Min(att + 1, Len(outs))]
             it == Iteration(att, o, jf)
         IN  IF it.end.act = "retry"
             THEN RunFrom(att + 1, outs, jf, nreq + 1, slept + it.sleep.dur)
             ELSE [end |-> it.end, requests |-> nreq + 1, slept |-> slept]

RunSearch(outs, jf) == RunFrom(0, outs, jf, 0, 0)

Ok(list) == Http(200, NoHeader, JsonType, BObj(<<Field("offers", JList(list))>>))

\* what the upstream does during the search_offers call for each partition
\* of a cycle: the outcomes of its successive requests
ScriptsFor(part) ==
    CASE part = "available" ->
            { <<Ok(<<Raw(1, "str")>>)>>,
              <<Ok(<<>>)>>,
              <<Transport>> }
      [] part = "rented" ->
            { <<Ok(<<Raw(1, "str")>>)>>,
              <<Ok(<<Raw(2, "list")>>)>>,
              <<Http(200, NoHeader, JsonType, BNonObj("list"))>> }
      [] OTHER ->
            { <<Ok(<<>>)>>,
              <<Ok(<<RawNum>>)>>,
              <<Http(503, "30", NoHeader, Malformed), Ok(<<Raw(3, "str")>>)>>,
              <<Http(404, NoHeader, NoHeader, Malformed)>> }

\* seconds one session.post takes
RequestSeconds == 1

-----------------------------------------------------------------------------
(* client.py 242-309 normalize, the fields the poll loop's rows are told   *)
(* apart by.  offer.get on a raw element that is not a dict raises.        *)
NormalizeRaises(of) == of.t # "obj"

Normalize(of, t, source_state) ==
    [ts |-> t, offer_id |-> of.id, gpu_name |-> of.gpu_name,
     availability_state |-> source_state]

RECURSIVE NormalizeAll(_, _, _)
NormalizeAll(raws, t, source_state) ==
    IF raws = <<>> THEN <<>>
    ELSE <<Normalize(Head(raws), t, source_state)>>
            \o NormalizeAll(Tail(raws), t, source_state)

\* Batch as it would be if rows were stamped with the clock at normalization
Batch_ClockAtNormalize(av, r, un, t) ==
    NormalizeAll(av, now, "available") \o NormalizeAll(r, now, "rented")
        \o NormalizeAll(un, now, "unavailable")

(* collector.py 181-185: av_rows + r_rows + un_rows                        *)
Batch(av, r, un, t) ==
    NormalizeAll(av, t, "available") \o NormalizeAll(r, t, "rented")
        \o NormalizeAll(un, t, "unavailable")

AnyRaises(raws) == \E i \in 1..Len(raws) : NormalizeRaises(raws[i])

(* sqlite3 cannot bind a list: executemany raises ProgrammingError at the  *)
(* first such row.  The number of rows of the batch executed before that.  *)
Bindable(row) == row.gpu_name = "str"

(* The sink is keyed by (offer_id, ts) (section 2; schema.sql is read at    *)
(* start-up, collector.py 140-141): an INSERT of a row whose key is already *)
(* in the table, committed or not, raises IntegrityError.                  *)
SinkKey(row) == <<row.offer_id, row.ts>>

\* the sink as it would be without a key
KeyConflict_NoKey(existing, row) == FALSE

KeyConflict(existing, row) ==
    \E i \in 1..Len(existing) : SinkKey(existing[i]) = SinkKey(row)

(* The number of rows of the batch executemany runs before one raises,     *)
(* existing being the rows already in the table.                           *)
RECURSIVE ExecutedPrefix(_, _)
ExecutedPrefix(existing, rows) ==
    IF rows = <<>> THEN 0
    ELSE IF ~Bindable(Head(rows)) \/ KeyConflict(existing, Head(rows)) THEN 0
    ELSE 1 + ExecutedPrefix(Append(existing, Head(rows)), Tail(rows))

\* LoopDelay as it would be with a delay that doubles with each failure
LoopDelay_Doubling(n) == Min(BACKOFF_BASE_SEC * 4, BACKOFF_BASE_SEC * (2 ^ (Max(n, 1) - 1)))

(* collector.py 193, 200                                                   *)
LoopDelay(n) == Min(BACKOFF_BASE_SEC * 4, BACKOFF_BASE_SEC * Max(n, 1))

(* collector.py 134-135                                                    *)
PollInterval(configured_interval) ==
    LET base_interval == IF configured_interval # 0 /\ configured_interval > 0
                         THEN configured_interval
                         ELSE VAST_MIN_POLL_INTERVAL_SEC * 6
    IN  Max(base_interval, VAST_MIN_POLL_INTERVAL_SEC * 6)

\* VW_POLL_INTERVAL_SEC; unset or not an integer behaves as 0 (None)
ConfiguredIntervals == {-5, 0, 100, 900}

(* collector.py 25-26 _ts_now: the clock at second precision               *)
TsNow == now

MaxCycles == 3
Partitions == {"available", "rented", "unavailable"}


-----------------------------------------------------------------------------
(* collector.main                                                          *)

LogEntry(t) == [ts |-> t, fetched |-> {}, batch |-> <<>>, executed |-> 0]

Init ==
    /\ FetcherIdle
    /\ NormalizeOff
    /\ OccupancyOff
    /\ pc = "startup"
    /\ poll_interval = 0
    /\ backoff_attempt = 0
    /\ delay = 0
    /\ now = 0
    /\ ts = 0
    /\ available = <<>>
    /\ rented = <<>>
    /\ unavailable = <<>>
    /\ pending = <<>>
    /\ committed = <<>>
    /\ raised = NoResult
    /\ cycle = 0
    /\ cycleLog = <<>>
    /\ lastCycle = "none"

(* collector.py 112-149: the environment is read; without VAST_API_KEY the *)
(* process exits 1; otherwise the store is opened and the loop entered.    *)
Startup ==
    /\ pc = "startup"
    /\ \E api_key \in BOOLEAN, configured_interval \in ConfiguredIntervals :
         IF ~api_key
         THEN /\ pc' = "exited"
              /\ UNCHANGED <<poll_interval, backoff_attempt>>
         ELSE /\ poll_interval' = PollInterval(configured_interval)
              /\ backoff_attempt' = 0
              /\ pc' = "top"
    /\ UNCHANGED <<delay, now, ts, available, rented, unavailable, pending,
                   committed, raised, cycle, cycleLog, lastCycle>>
    /\ UNCHANGED <<fvars, xvars>>

(* collector.py 150-151: while True: ts = _ts_now()                        *)
StartCycle ==
    /\ pc = "top"
    /\ cycle < MaxCycles
    /\ ts' = TsNow
    /\ cycle' = cycle + 1
    /\ cycleLog' = Append(cycleLog, LogEntry(TsNow))
    /\ pc' = "fetch_available"
    /\ UNCHANGED <<poll_interval, backoff_attempt, delay, now, available, rented,
                   unavailable, pending, committed, raised, lastCycle>>
    /\ UNCHANGED <<fvars, xvars>>

(* One search_offers call of the cycle: its return value is kept, or its   *)
(* exception travels to the except blocks.  The clock moves by the call's  *)
(* sleeps and requests.                                                    *)
Fetch(part, next) ==
    \E outs \in ScriptsFor(part), jf \in {0, 2} :
        LET run == RunSearch(outs, jf)
        IN  /\ now' = now + run.slept + RequestSeconds * run.requests
            /\ IF run.end.act = "return"
               THEN /\ available' = IF part = "available" THEN run.end.value ELSE available
                    /\ rented' = IF part = "rented" THEN run.end.value ELSE rented
                    /\ unavailable' = IF part = "unavailable" THEN run.end.value
                                      ELSE unavailable
                    /\ cycleLog' = [cycleLog EXCEPT ![cycle].fetched = @ \cup {part}]
                    /\ raised' = raised
                    /\ pc' = next
               ELSE /\ raised' = run.end
                    /\ pc' = "except"
                    /\ UNCHANGED <<available, rented, unavailable, cycleLog>>

(* collector.py 154-159 *)
FetchAvailable ==
    /\ pc = "fetch_available"
    /\ Fetch("available", "fetch_rented")
    /\ UNCHANGED <<poll_interval, backoff_attempt, delay, ts, pending, committed,
                   cycle, lastCycle>>
    /\ UNCHANGED <<fvars, xvars>>

(* collector.py 162-167 *)
FetchRented ==
    /\ pc = "fetch_rented"
    /\ Fetch("rented", "fetch_unavailable")
    /\ UNCHANGED <<poll_interval, backoff_attempt, delay, ts, pending, committed,
                   cycle, lastCycle>>
    /\ UNCHANGED <<fvars, xvars>>

(* collector.py 168-173 *)
FetchUnavailable ==
    /\ pc = "fetch_unavailable"
    /\ Fetch("unavailable", "insert")
    /\ UNCHANGED <<poll_interval, backoff_attempt, delay, ts, pending, committed,
                   cycle, lastCycle>>
    /\ UNCHANGED <<fvars, xvars>>

(* collector.py 67-95 _insert_rows on the sqlite backend: nothing for an   *)
(* empty batch; otherwise executemany runs the INSERTs in order inside the *)
(* connection's open transaction, and commit publishes the transaction.    *)
(* A row that cannot be bound raises and leaves the earlier rows in the    *)
(* transaction: no rollback is issued.                                     *)
InsertRows(rows) ==
    IF rows = <<>>
    THEN [ok |-> TRUE, exc |-> "", pending |-> pending, committed |-> committed,
          executed |-> 0]
    ELSE LET n == ExecutedPrefix(committed \o pending, rows)
         IN  IF n < Len(rows)
             THEN [ok |-> FALSE,
                   exc |-> IF Bindable(rows[n + 1]) THEN "IntegrityError"
                           ELSE "ProgrammingError",
                   pending |-> pending \o SubSeq(rows, 1, n),
                   committed |-> committed, executed |-> n]
             ELSE [ok |-> TRUE, exc |-> "", pending |-> <<>>,
                   committed |-> committed \o pending \o rows, executed |-> n]

(* collector.py 181-190: normalize the three lists, insert the batch,      *)
(* reset the backoff and sleep the poll interval.                          *)
NormalizeInsert ==
    /\ pc = "insert"
    /\ IF AnyRaises(available \o rented \o unavailable)
       THEN /\ raised' = Raise("AttributeError", -1, -1)
            /\ pc' = "except"
            /\ UNCHANGED <<pending, committed, cycleLog, backoff_attempt, now, lastCycle>>
       ELSE LET rows == Batch(available, rented, unavailable, ts)
                ins == InsertRows(rows)
            IN  /\ pending' = ins.pending
                /\ committed' = ins.committed
                /\ cycleLog' = [cycleLog EXCEPT ![cycle].batch = rows,
                                                ![cycle].executed = ins.executed]
                /\ IF ins.ok
                   THEN /\ backoff_attempt' = 0
                        /\ now' = now + poll_interval
                        /\ lastCycle' = "ok"
                        /\ raised' = raised
                        /\ pc' = "top"
                   ELSE /\ raised' = Raise(ins.exc, -1, -1)
                        /\ pc' = "except"
                        /\ UNCHANGED <<backoff_attempt, now, lastCycle>>
    /\ UNCHANGED <<poll_interval, delay, ts, available, rented, unavailable, cycle>>
    /\ UNCHANGED <<fvars, xvars>>

(* collector.py 192-197 and 199-202: both except blocks count the failure, *)
(* compute the delay and sleep it.                                         *)
Backoff ==
    /\ backoff_attempt' = backoff_attempt + 1
    /\ delay' = LoopDelay(backoff_attempt + 1)
    /\ now' = now + LoopDelay(backoff_attempt + 1)
    /\ lastCycle' = "failed"
    /\ pc' = "top"

(* collector.py 191-197 *)
HandleVastAPIError ==
    /\ pc = "except"
    /\ raised.exc = "VastAPIError"
    /\ Backoff
    /\ UNCHANGED <<poll_interval, ts, available, rented, unavailable, pending,
                   committed, raised, cycle, cycleLog>>
    /\ UNCHANGED <<fvars, xvars>>

\* HandleException as it would be if the unexpected error ended the process
HandleException_Exits ==
    /\ pc = "except"
    /\ raised.exc # "VastAPIError"
    /\ pc' = "exited"
    /\ UNCHANGED <<poll_interval, backoff_attempt, delay, now, ts, available, rented,
                   unavailable, pending, committed, raised, cycle, cycleLog, lastCycle>>
    /\ UNCHANGED <<fvars, xvars>>

(* collector.py 198-202 *)
HandleException ==
    /\ pc = "except"
    /\ raised.exc # "VastAPIError"
    /\ Backoff
    /\ UNCHANGED <<poll_interval, ts, available, rented, unavailable, pending,
                   committed, raised, cycle, cycleLog>>
    /\ UNCHANGED <<fvars, xvars>>

Next ==
    \/ Startup
    \/ StartCycle
    \/ FetchAvailable
    \/ FetchRented
    \/ FetchUnavailable
    \/ NormalizeInsert
    \/ HandleVastAPIError
    \/ HandleException

Spec == Init /\ [][Next]_vars

\* the loop is one sequential thread: whichever statement it is at completes
FairSpec == Init /\ [][Next]_vars /\ WF_vars(Next)

-----------------------------------------------------------------------------
(* normalize (client.py), one call on one raw record.                      *)

(* A Python value as normalize can tell it apart: its type t, a number n   *)
(* (bool: 0/1; int: the value; float: the value in tenths; inf: the sign;  *)
(* list, dict: the length) and a text s (str).                              *)
VNone == [t |-> "none", n |-> 0, s |-> ""]
VTrue == [t |-> "bool", n |-> 1, s |-> ""]
VFalse == [t |-> "bool", n |-> 0, s |-> ""]
VInt(i) == [t |-> "int", n |-> i, s |-> ""]
VFloat(tenths) == [t |-> "float", n |-> tenths, s |-> ""]
VNaN == [t |-> "nan", n |-> 0, s |-> ""]
VInf == [t |-> "inf", n |-> 1, s |-> ""]
VStr(str) == [t |-> "str", n |-> 0, s |-> str]
VList(len) == [t |-> "list", n |-> len, s |-> ""]
VDict(len) == [t |-> "dict", n |-> len, s |-> ""]

\* bool(x)
Truthy(x) ==
    CASE x.t = "none" -> FALSE
      [] x.t \in {"bool", "int", "float", "list", "dict"} -> x.n # 0
      [] x.t \in {"nan", "inf"} -> TRUE
      [] x.t = "str" -> x.s # ""

\* a or b or ... : the first truthy operand, else the last one
RECURSIVE PyOr(_)
PyOr(xs) == IF Len(xs) = 1 \/ Truthy(Head(xs)) THEN Head(xs) ELSE PyOr(Tail(xs))

\* the keys normalize reads
Keys == {"id", "offer_id", "machine_id", "machine", "machineID",
         "gpu_name", "gpu_name_short", "gpu", "num_gpus", "numgpus", "gpus",
         "gpu_frac", "gpu_fraction", "gpu_total_ram_gb", "gpu_total_ram",
         "gpu_ram", "gpu_mem", "dph_total", "dollars_per_hour",
         "usd_per_hour", "reliability2", "reliability", "geolocation",
         "country", "region", "city", "country_code", "type",
         "interruptible", "preemptible", "rentable", "rented", "verified",
         "is_verified", "deverified", "is_vm_deverified", "verification"}

\* offer.get(k): None for a key the record lacks
Get(offer, k) == IF k \in DOMAIN offer THEN offer[k] ELSE VNone

\* the truncation int() applies to a float given in tenths
Trunc(tenths) == IF tenths >= 0 THEN tenths \div 10 ELSE -((-tenths) \div 10)

\* s.strip().lower() on the texts of the model
StripLower(str) ==
    CASE str = "TRUE" -> "true"
      [] str = " Yes " -> "yes"
      [] str = "Off" -> "off"
      [] str = " Verified " -> "verified"
      [] str = "DEVERIFIED" -> "deverified"
      [] str = " Rented " -> "rented"
      [] str = "Available" -> "available"
      [] str = " 7 " -> "7"
      [] str = "  " -> ""
      [] OTHER -> str

\* int(s) of a text: [ok, v]
IntLiteral(str) ==
    CASE str = "0" -> [ok |-> TRUE, v |-> 0]
      [] str = "1" -> [ok |-> TRUE, v |-> 1]
      [] str = "2" -> [ok |-> TRUE, v |-> 2]
      [] str = " 7 " -> [ok |-> TRUE, v |-> 7]
      [] OTHER -> [ok |-> FALSE, v |-> 0]

\* float(s) of a text: [ok, v]
FloatLiteral(str) ==
    CASE IntLiteral(str).ok -> [ok |-> TRUE, v |-> VFloat(10 * IntLiteral(str).v)]
      [] str = "1.5" -> [ok |-> TRUE, v |-> VFloat(15)]
      [] str = "nan" -> [ok |-> TRUE, v |-> VNaN]
      [] str = "inf" -> [ok |-> TRUE, v |-> VInf]
      [] OTHER -> [ok |-> FALSE, v |-> VNone]

\* float(x): [ok, v]
PyFloat(x) ==
    CASE x.t = "bool" -> [ok |-> TRUE, v |-> VFloat(10 * x.n)]
      [] x.t = "int" -> [ok |-> TRUE, v |-> VFloat(10 * x.n)]
      [] x.t \in {"float", "nan", "inf"} -> [ok |-> TRUE, v |-> x]
      [] x.t = "str" -> FloatLiteral(x.s)
      [] OTHER -> [ok |-> FALSE, v |-> VNone]

\* str(x)
PyStr(x) ==
    CASE x.t = "str" -> x.s
      [] x.t = "none" -> "None"
      [] x.t = "bool" -> IF x.n = 1 THEN "True" ELSE "False"
      [] x.t = "int" -> ToString(x.n)
      [] x.t = "float" -> ToString(Trunc(x.n)) \o "."
                            \o ToString((IF x.n >= 0 THEN x.n ELSE -x.n) % 10)
      [] x.t = "nan" -> "nan"
      [] x.t = "inf" -> "inf"
      [] x.t = "list" -> "[...]"
      [] x.t = "dict" -> "{...}"

to_float(x) ==
    IF x.t = "none" THEN VNone
    ELSE IF PyFloat(x).ok THEN PyFloat(x).v ELSE VNone

to_int(x) ==
    CASE x.t \in {"bool", "int"} -> VInt(x.n)
      [] x.t = "float" -> VInt(Trunc(x.n))
      [] x.t = "str" -> VInt(IntLiteral(x.s).v)
      [] OTHER -> VInt(0)

\* the first candidate float() accepts, converted by magnitude (to the
\* tenth of a GB)
RECURSIVE VramFrom(_)
VramFrom(candidates) ==
    IF candidates = <<>> THEN VNone
    ELSE LET val == Head(candidates)
             f == PyFloat(val)
         IN  IF val.t = "none" \/ ~f.ok THEN VramFrom(Tail(candidates))
             ELSE IF f.v.t = "nan" THEN VNaN
             ELSE IF f.v.t = "inf" THEN VInf
             ELSE IF f.v.n > 10 * 1000000 THEN VFloat(f.v.n \div (1024 * 1024 * 1024))
             ELSE IF f.v.n > 10 * 200 THEN VFloat(f.v.n \div 1024)
             ELSE f.v

normalize_vram_gb(offer) ==
    VramFrom(<<Get(offer, "gpu_total_ram_gb"), Get(offer, "gpu_total_ram"),
               Get(offer, "gpu_ram"), Get(offer, "gpu_mem")>>)

normalize_type(offer) ==
    LET t == Get(offer, "type")
    IN  IF t.t = "str" /\ t.s # "" THEN t
        ELSE IF Get(offer, "interruptible") = VTrue \/ Get(offer, "preemptible") = VTrue
             THEN VStr("interruptible")
        ELSE IF Get(offer, "interruptible") = VFalse \/ Get(offer, "preemptible") = VFalse
             THEN VStr("on-demand")
        ELSE VNone

\* what a helper that may raise gives back: exc is "" when it returned v
Returns(val) == [exc |-> "", v |-> val]
Raises(e) == [exc |-> e, v |-> VNone]

normalize_geo(offer) ==
    LET geo == PyOr(<<Get(offer, "geolocation"), Get(offer, "country"), Get(offer, "region")>>)
        city == Get(offer, "city")
        country == PyOr(<<Get(offer, "country_code"), Get(offer, "country")>>)
    IN  IF Truthy(geo) THEN Returns(VStr(PyStr(geo)))
        ELSE IF Truthy(city) \/ Truthy(country)
             THEN \* ", ".join of the truthy parts: every part must be a str
                  IF (Truthy(city) /\ city.t # "str") \/ (Truthy(country) /\ country.t # "str")
                  THEN Raises("TypeError")
                  ELSE IF Truthy(city) /\ Truthy(country)
                       THEN Returns(VStr(city.s \o ", " \o country.s))
                  ELSE IF Truthy(city) THEN Returns(VStr(city.s))
                  ELSE Returns(VStr(country.s))
        ELSE Returns(VNone)

TrueTokens == {"1", "true", "yes", "y", "on"}
FalseTokens == {"0", "false", "no", "n", "off"}

to_bool_int(x) ==
    CASE x.t = "none" -> Returns(VNone)
      [] x.t = "bool" -> Returns(VInt(x.n))
      [] x.t = "int" -> Returns(VInt(IF x.n # 0 THEN 1 ELSE 0))
      [] x.t = "float" -> Returns(VInt(IF Trunc(x.n) # 0 THEN 1 ELSE 0))
      [] x.t = "nan" -> Raises("ValueError")       \* int(nan)
      [] x.t = "inf" -> Raises("OverflowError")    \* int(inf)
      [] x.t = "str" -> Returns(IF StripLower(x.s) \in TrueTokens THEN VInt(1)
                                ELSE IF StripLower(x.s) \in FalseTokens THEN VInt(0)
                                ELSE VNone)
      [] OTHER -> Returns(VNone)

\* source_state as normalize compares it: stripped, lower-cased, "" as None
SourceState(source_state) ==
    IF source_state.t = "none" \/ StripLower(source_state.s) = "" THEN VNone
    ELSE VStr(StripLower(source_state.s))

\* lines 264-278: the verification string, is_vm_deverified, the defaults
VerificationFlags(verified0, deverified0, verification_str, is_vm_deverified) ==
    LET lowered == StripLower(verification_str.s)
        byStr == IF verification_str.t = "str" /\ lowered = "verified"
                    THEN [verified |-> VInt(1), deverified |-> VInt(0)]
                 ELSE IF verification_str.t = "str" /\ lowered = "deverified"
                    THEN [verified |-> VInt(0), deverified |-> VInt(1)]
                 ELSE [verified |-> verified0, deverified |-> deverified0]
        byVm == IF is_vm_deverified = VTrue
                   THEN [byStr EXCEPT !.deverified = VInt(1)]
                   ELSE byStr
    IN  [verified |-> IF byVm.verified = VNone THEN VInt(0) ELSE byVm.verified,
         deverified |-> IF byVm.deverified = VNone THEN VInt(0) ELSE byVm.deverified]

\* lines 280-290 as they would be with the flags consulted before the hint
AvailabilityState_FlagsFirst(src, rentable_int, rented_int) ==
    IF rentable_int = VInt(1) /\ rented_int = VInt(0) THEN "available"
    ELSE IF rented_int = VInt(1) THEN "rented"
    ELSE IF rentable_int = VInt(0) /\ rented_int = VInt(0) THEN "unavailable"
    ELSE IF src.s \in {"available", "rented", "unavailable"} THEN src.s
    ELSE "unknown"

AvailabilityState(src, rentable_int, rented_int) ==
    IF src.s \in {"available", "rented", "unavailable"} THEN src.s
    ELSE IF rentable_int = VInt(1) /\ rented_int = VInt(0) THEN "available"
    ELSE IF rented_int = VInt(1) THEN "rented"
    ELSE IF rentable_int = VInt(0) /\ rented_int = VInt(0) THEN "unavailable"
    ELSE "unknown"

Fields == {"ts", "offer_id", "machine_id", "gpu_name", "num_gpus", "gpu_frac",
           "gpu_total_ram_gb", "dph_total_usd", "reliability2", "geolocation",
           "type", "rentable", "rented", "verified", "deverified",
           "availability_state"}

\* the call: [exc, rec], exc the exception that left it ("" when it returned)
normalize(offer, t, source_state) ==
    LET geolocation == normalize_geo(offer)
        rentable_int == to_bool_int(Get(offer, "rentable"))
        rented_int == to_bool_int(Get(offer, "rented"))
        src == SourceState(source_state)
        verified_val == IF Get(offer, "verified") = VNone
                           THEN Get(offer, "is_verified")
                           ELSE Get(offer, "verified")
        verified == to_bool_int(verified_val)
        deverified == to_bool_int(Get(offer, "deverified"))
        flags == VerificationFlags(verified.v, deverified.v,
                                   Get(offer, "verification"),
                                   Get(offer, "is_vm_deverified"))
        raised_ == SelectSeq(<<geolocation.exc, rentable_int.exc, rented_int.exc,
                               verified.exc, deverified.exc>>,
                             LAMBDA e : e # "")
    IN  IF raised_ # <<>> THEN [exc |-> Head(raised_), rec |-> <<>>]
        ELSE [exc |-> "",
              rec |-> [ts |-> t,
                       offer_id |-> to_int(PyOr(<<Get(offer, "id"), Get(offer, "offer_id")>>)),
                       machine_id |-> to_int(PyOr(<<Get(offer, "machine_id"), Get(offer, "machine"),
                                                    Get(offer, "machineID")>>)),
                       gpu_name |-> PyOr(<<Get(offer, "gpu_name"), Get(offer, "gpu_name_short"),
                                           Get(offer, "gpu")>>),
                       num_gpus |-> to_int(PyOr(<<Get(offer, "num_gpus"), Get(offer, "numgpus"),
                                                  Get(offer, "gpus"), VInt(1)>>)),
                       gpu_frac |-> to_float(PyOr(<<Get(offer, "gpu_frac"), Get(offer, "gpu_fraction"),
                                                    VFloat(10)>>)),
                       gpu_total_ram_gb |-> normalize_vram_gb(offer),
                       dph_total_usd |-> to_float(PyOr(<<Get(offer, "dph_total"),
                                                         Get(offer, "dollars_per_hour"),
                                                         Get(offer, "usd_per_hour")>>)),
                       reliability2 |-> to_float(PyOr(<<Get(offer, "reliability2"),
                                                        Get(offer, "reliability")>>)),
                       geolocation |-> geolocation.v,
                       type |-> normalize_type(offer),
                       rentable |-> rentable_int.v,
                       rented |-> rented_int.v,
                       verified |-> flags.verified,
                       deverified |-> flags.deverified,
                       availability_state |-> AvailabilityState(src, rentable_int.v, rented_int.v)]]

\* the raw values a flag is tried with
FlagValues ==
    {VNone, VTrue, VFalse, VInt(0), VInt(1), VInt(2), VInt(-1),
     VFloat(0), VFloat(10), VFloat(5), VFloat(25), VNaN, VInf,
     VStr("1"), VStr("true"), VStr("yes"), VStr("y"), VStr("on"),
     VStr("0"), VStr("false"), VStr("no"), VStr("n"), VStr("off"),
     VStr("TRUE"), VStr(" Yes "), VStr("Off"), VStr("maybe"), VStr(""),
     VList(0), VList(2), VDict(0), VDict(1)}

\* the raw values any one key is tried with
AnyValues ==
    FlagValues \cup
    {VStr("RTX 4090"), VStr("Paris"), VStr(" 7 "), VStr("2"), VStr("1.5"),
     VStr("nan"), VStr("inf"), VInt(24), VInt(24576), VInt(2000000)}

FlagOffers ==
    {[rentable |-> a, rented |-> b] :
        a \in FlagValues,
        b \in {VNone, VTrue, VFalse, VInt(0), VInt(1), VInt(2), VStr("yes"),
               VStr("maybe"), VNaN}}

VerificationOffers ==
    {[verified |-> a, is_verified |-> b, deverified |-> c,
      is_vm_deverified |-> d, verification |-> e] :
        a \in {VNone, VTrue, VFalse, VStr("yes"), VInt(2)},
        b \in {VNone, VTrue, VFalse},
        c \in {VNone, VTrue, VFalse},
        d \in {VNone, VTrue, VFalse, VInt(1)},
        e \in {VNone, VStr("verified"), VStr("deverified"), VStr(" Verified "),
               VStr("DEVERIFIED"), VStr("unverified"), VTrue}}

SingleKeyOffers == {k :> v : k \in Keys, v \in AnyValues}

GeoOffers ==
    {[city |-> a, country_code |-> b, country |-> c, geolocation |-> d] :
        a \in {VNone, VStr("Paris"), VStr(""), VInt(5)},
        b \in {VNone, VStr("FR"), VInt(33)},
        c \in {VNone, VStr("France")},
        d \in {VNone, VStr("Paris, FR"), VInt(0)}}

\* the source_state arguments: None, the three partitions, other texts
SourceStates ==
    {VNone, VStr(""), VStr("available"), VStr("rented"), VStr("unavailable"),
     VStr(" Rented "), VStr("Available"), VStr("spot"), VStr("  ")}

\* the calls followed: (offer, source_state)
NormalizeCalls ==
    (FlagOffers \X SourceStates)
    \cup ((VerificationOffers \cup SingleKeyOffers \cup GeoOffers \cup {<<>>})
            \X {VNone, VStr("rented")})

NormalizeTimes == {0, 360}

NInit ==
    /\ FetcherIdle
    /\ LoopOff
    /\ OccupancyOff
    /\ npc = "call"
    /\ \E c \in NormalizeCalls : noffer = c[1] /\ nsrc = c[2]
    /\ nts \in NormalizeTimes
    /\ nres = <<>>

NormalizeCall ==
    /\ npc = "call"
    /\ nres' = normalize(noffer, nts, nsrc)
    /\ npc' = "done"
    /\ UNCHANGED <<fvars, lvars, ovars, noffer, nts, nsrc>>

NNext == NormalizeCall

NormSpec == NInit /\ [][NNext]_vars

-----------------------------------------------------------------------------
(* _run_occupancy (report.py), one report over one store.                  *)

(* Stored timestamps are texts of whole seconds (collector._ts_now), kept  *)
(* here as a number of seconds.  A datetime is a number of ticks, so that  *)
(* --since and --until can fall between two seconds.                       *)
TicksPerSecond == 2

\* Python's None, SQL's NULL
NoneVal == -1

\* a whole number of seconds as a datetime
Sec(s) == TicksPerSecond * s

\* _parse_iso8601 of a stored ts
parse_ts(ts_str) == TicksPerSecond * ts_str

\* _format_iso8601: the datetime cut to the second, as stored ts are written
format_iso8601(dt) == dt \div TicksPerSecond

\* round(num / den) to the nearest integer, ties to even
Round(num, den) ==
    LET q == num \div den
        r == num % den
    IN  IF 2 * r < den THEN q
        ELSE IF 2 * r > den THEN q + 1
        ELSE IF q % 2 = 0 THEN q ELSE q + 1

\* the rows a store may hold: offer_id, ts, rentable, rented
MaxRows == 3
OfferIds == {5, 7}
StoredTs == {0, 3600, 7200}
StoredFlags == {<<1, 0>>, <<0, 1>>, <<0, 0>>, <<NoneVal, NoneVal>>}
StoreRows ==
    {[offer_id |-> i, ts |-> t, rentable |-> f[1], rented |-> f[2]] :
        i \in OfferIds, t \in StoredTs, f \in StoredFlags}

RECURSIVE StoresUpTo(_)
StoresUpTo(k) ==
    IF k = 0 THEN {{}}
    ELSE LET smaller == StoresUpTo(k - 1)
         IN  smaller \cup {s \cup {r} : s \in smaller, r \in StoreRows}

\* ORDER BY offer_id, ts
RowLeq(a, b) == a.offer_id < b.offer_id \/ (a.offer_id = b.offer_id /\ a.ts <= b.ts)

\* the orders in which the query may return the rows S: sorted by
\* (offer_id, ts), rows with the same key in either order
RECURSIVE OrderBy(_)
OrderBy(S) ==
    IF S = {} THEN {<<>>}
    ELSE UNION {{<<r>> \o rest : rest \in OrderBy(S \ {r})} :
                    r \in {m \in S : \A q \in S : RowLeq(m, q)}}

\* the query as it would be without its WHERE clause
SelectWindow_All(rows_stored, since_iso, until_iso) == rows_stored

\* SELECT ... WHERE ts >= since_iso AND ts <= until_iso
SelectWindow(rows_stored, since_iso, until_iso) ==
    {r \in rows_stored : r.ts >= since_iso /\ r.ts <= until_iso}

\* lines 440-446: the interval from VW_POLL_INTERVAL_SEC, never below 360 s
OccPollInterval(poll_env) ==
    Max(IF poll_env # NoneVal /\ poll_env > 0 THEN poll_env
        ELSE VAST_MIN_POLL_INTERVAL_SEC * 6,
        VAST_MIN_POLL_INTERVAL_SEC * 6)

MinTs(rows_stored) == CHOOSE t \in {r.ts : r \in rows_stored} : \A r \in rows_stored : t <= r.ts
MaxTs(rows_stored) == CHOOSE t \in {r.ts : r \in rows_stored} : \A r \in rows_stored : t >= r.ts

\* lines 448-449
SinceDt(rows_stored, a) ==
    IF a.since # NoneVal THEN a.since ELSE parse_ts(MinTs(rows_stored))
UntilDt(rows_stored, a) ==
    IF a.until # NoneVal THEN a.until
    ELSE parse_ts(MaxTs(rows_stored)) + Sec(OccPollInterval(a.poll_env))

\* lines 489-492 as they would be with every sample held for the poll
\* interval only
NextDt_AlwaysExtrapolated(rows, idx, poll_interval_sec) ==
    parse_ts(rows[idx].ts) + Sec(poll_interval_sec)

\* lines 489-492: where the state of row idx stops being held
NextDt(rows, idx, poll_interval_sec) ==
    IF idx + 1 <= Len(rows) /\ rows[idx + 1].offer_id = rows[idx].offer_id
    THEN parse_ts(rows[idx + 1].ts)
    ELSE parse_ts(rows[idx].ts) + Sec(poll_interval_sec)

\* lines 475-486: the entry setdefault creates
NewEntry ==
    [samples |-> 0, total_sec |-> 0, available_sec |-> 0,
     assumed_rented_sec |-> 0, api_rented_sec |-> 0, unknown_sec |-> 0]

\* lines 500-512 as they would be with the total counting known states only
Credit_KnownOnly(entry, delta_sec, rentable_flag, rented_flag) ==
    LET e1 == IF rentable_flag = NoneVal THEN entry
              ELSE [entry EXCEPT !.total_sec = @ + delta_sec]
        e2 == IF rentable_flag = NoneVal
                 THEN [e1 EXCEPT !.unknown_sec = @ + delta_sec]
              ELSE IF rentable_flag # 0
                 THEN [e1 EXCEPT !.available_sec = @ + delta_sec]
              ELSE [e1 EXCEPT !.assumed_rented_sec = @ + delta_sec]
    IN  IF rented_flag # NoneVal /\ rented_flag # 0
        THEN [e2 EXCEPT !.api_rented_sec = @ + delta_sec]
        ELSE e2

\* lines 500-512: a positive duration goes to the total, to the bucket of
\* the rentable flag and, when rented is true, to api_rented as well
Credit(entry, delta_sec, rentable_flag, rented_flag) ==
    LET e1 == [entry EXCEPT !.total_sec = @ + delta_sec]
        e2 == IF rentable_flag = NoneVal
                 THEN [e1 EXCEPT !.unknown_sec = @ + delta_sec]
              ELSE IF rentable_flag # 0
                 THEN [e1 EXCEPT !.available_sec = @ + delta_sec]
              ELSE [e1 EXCEPT !.assumed_rented_sec = @ + delta_sec]
    IN  IF rented_flag # NoneVal /\ rented_flag # 0
        THEN [e2 EXCEPT !.api_rented_sec = @ + delta_sec]
        ELSE e2

\* lines 521-546: the row of one entity; hours in thousandths, percentages
\* in hundredths, durations being in ticks
OutRow(id, entry) ==
    [offer_id |-> id,
     samples |-> entry.samples,
     total_hours |-> Round(1000 * entry.total_sec, Sec(3600)),
     available_hours |-> Round(1000 * entry.available_sec, Sec(3600)),
     assumed_rented_hours |-> Round(1000 * entry.assumed_rented_sec, Sec(3600)),
     api_rented_hours |-> Round(1000 * entry.api_rented_sec, Sec(3600)),
     unknown_hours |-> Round(1000 * entry.unknown_sec, Sec(3600)),
     available_pct |-> Round(100 * 100 * entry.available_sec, entry.total_sec),
     assumed_rented_pct |-> Round(100 * 100 * entry.assumed_rented_sec, entry.total_sec),
     api_rented_pct |-> Round(100 * 100 * entry.api_rented_sec, entry.total_sec),
     unknown_pct |-> Round(100 * 100 * entry.unknown_sec, entry.total_sec)]

\* lines 516-521: the entities that are reported
Kept(entry, a) ==
    /\ entry.samples >= Max(a.min_samples, 1)
    /\ entry.total_sec >= Max(Sec(a.min_total_minutes * 60), 0)
    /\ entry.total_sec > 0

\* lines 516-548: rows_out before the sort, in the order the entities were
\* first met (ascending offer_id)
RECURSIVE RowsOut(_, _, _)
RowsOut(st, ids, a) ==
    IF ids = {} THEN <<>>
    ELSE LET id == CHOOSE i \in ids : \A j \in ids : i <= j
         IN  (IF Kept(st[id], a) THEN <<OutRow(id, st[id])>> ELSE <<>>)
                \o RowsOut(st, ids \ {id}, a)

\* line 550: the sort key (r[10], r[6])
KeyGeq(a, b) ==
    \/ a.assumed_rented_pct > b.assumed_rented_pct
    \/ /\ a.assumed_rented_pct = b.assumed_rented_pct
       /\ a.assumed_rented_hours >= b.assumed_rented_hours

\* list.sort(key, reverse=True): descending, rows of equal key keeping
\* their order
RECURSIVE SortDesc(_)
SortDesc(rs) ==
    IF rs = <<>> THEN <<>>
    ELSE LET first == CHOOSE i \in 1..Len(rs) :
                        /\ \A j \in 1..Len(rs) : KeyGeq(rs[i], rs[j])
                        /\ \A j \in 1..(i - 1) : ~KeyGeq(rs[j], rs[i])
         IN  <<rs[first]>> \o
             SortDesc(SubSeq(rs, 1, first - 1) \o SubSeq(rs, first + 1, Len(rs)))

\* lines 551-552: rows_out[:limit]
Limit(rs, n) == IF n = NoneVal THEN rs ELSE SubSeq(rs, 1, Min(n, Len(rs)))

\* what the report printed: a table, or the usage error
Table(rs, n) == [kind |-> "table", code |-> 0, sorted |-> rs, rows |-> Limit(rs, n)]
UsageError == [kind |-> "error", code |-> 2, sorted |-> <<>>, rows |-> <<>>]

\* the arguments of a report: --since, --until (datetimes or None),
\* VW_POLL_INTERVAL_SEC, --min-samples, --min-total-minutes, --limit
Args(s, u, p, ms, mt, lim) ==
    [since |-> s, until |-> u, poll_env |-> p, min_samples |-> ms,
     min_total_minutes |-> mt, limit |-> lim]

OccupancyArgs ==
    {Args(NoneVal, NoneVal, NoneVal, 2, 0, NoneVal),
     Args(NoneVal, NoneVal, 3600, 1, 0, NoneVal),
     Args(Sec(0), Sec(7200), 3600, 2, 0, NoneVal),
     Args(Sec(0), Sec(7200), 100, 1, 0, 1),
     Args(Sec(1800), Sec(7200), 3600, 1, 0, NoneVal),
     Args(Sec(0) + 1, Sec(5400), 3600, 1, 0, NoneVal),
     Args(Sec(0), Sec(5400), 3600, 1, 0, 0),
     Args(Sec(3600), NoneVal, NoneVal, 1, 30, NoneVal),
     Args(NoneVal, Sec(1800), 900, 1, 0, NoneVal),
     Args(Sec(3600), Sec(3600), NoneVal, 1, 0, NoneVal),
     Args(Sec(7200), Sec(0), NoneVal, 2, 0, NoneVal),
     Args(Sec(9000), Sec(10800), NoneVal, 1, 0, NoneVal)}

OInit ==
    /\ FetcherIdle
    /\ LoopOff
    /\ NormalizeOff
    /\ opc = "call"
    /\ store \in StoresUpTo(MaxRows)
    /\ oargs \in OccupancyArgs
    /\ orows = <<>>
    /\ oidx = 0
    /\ stats = <<>>
    /\ credited = <<>>
    /\ oout = NoOutput

\* lines 419-465: the bounds, the window, the query
OccSelect ==
    /\ opc = "call"
    /\ IF store = {}
       THEN /\ oout' = Table(<<>>, NoneVal)
            /\ opc' = "done"
            /\ UNCHANGED orows
       ELSE IF UntilDt(store, oargs) <= SinceDt(store, oargs)
       THEN /\ oout' = UsageError
            /\ opc' = "done"
            /\ UNCHANGED orows
       ELSE /\ orows' \in OrderBy(SelectWindow(store,
                                    format_iso8601(SinceDt(store, oargs)),
                                    format_iso8601(UntilDt(store, oargs))))
            /\ IF orows' = <<>>
               THEN oout' = Table(<<>>, NoneVal) /\ opc' = "done"
               ELSE oout' = oout /\ opc' = "loop"
    /\ oidx' = 1
    /\ UNCHANGED <<fvars, lvars, nvars, store, oargs, stats, credited>>

\* lines 471-512: one row of the loop
OccRow ==
    /\ opc = "loop"
    /\ oidx <= Len(orows)
    /\ LET row == orows[oidx]
           since_dt == SinceDt(store, oargs)
           until_dt == UntilDt(store, oargs)
           entry == IF row.offer_id \in DOMAIN stats THEN stats[row.offer_id]
                    ELSE NewEntry
           counted == [entry EXCEPT !.samples = @ + 1]
           next_dt == Min(NextDt(orows, oidx, OccPollInterval(oargs.poll_env)), until_dt)
           current_dt == IF parse_ts(row.ts) < since_dt /\ next_dt > since_dt
                            THEN since_dt ELSE parse_ts(row.ts)
           delta_sec == next_dt - current_dt
           after == IF delta_sec <= 0 THEN counted
                    ELSE Credit(counted, delta_sec, row.rentable, row.rented)
       IN  /\ stats' = [i \in DOMAIN stats \cup {row.offer_id} |->
                            IF i = row.offer_id THEN after ELSE stats[i]]
           /\ credited' = Append(credited,
                                 [offer_id |-> row.offer_id, from |-> current_dt,
                                  to |-> next_dt])
    /\ oidx' = oidx + 1
    /\ UNCHANGED <<fvars, lvars, nvars, opc, store, oargs, orows, oout>>

\* lines 514-555: the filters, the sort, the limit
OccReport ==
    /\ opc = "loop"
    /\ oidx > Len(orows)
    /\ oout' = Table(SortDesc(RowsOut(stats, DOMAIN stats, oargs)), oargs.limit)
    /\ opc' = "done"
    /\ UNCHANGED <<fvars, lvars, nvars, store, oargs, orows, oidx, stats, credited>>

ONext == OccSelect \/ OccRow \/ OccReport

OccSpec == OInit /\ [][ONext]_vars



-----------------------------------------------------------------------------
(* Properties of search_offers (FetchSpec)                                 *)

\* the outcomes section 4.1 calls retryable: transport failure, 429, any 5xx
SpecRetryableStatus(st) == st = 0 \/ st = 429 \/ (st >= 500 /\ st <= 599)
SpecRetryable(o) == o.kind = "transport" \/ o.status = 429
                        \/ (o.status >= 500 /\ o.status <= 599)

RECURSIVE Repeat(_, _)
Repeat(x, n) == IF n = 0 THEN <<>> ELSE <<x>> \o Repeat(x, n - 1)

\* C1: a call issues at most 5 requests, and when five retryable outcomes
\* have been received it has failed with a VastAPIError that describes the
\* fifth one and carries its status when that was an HTTP response.
AtMostFiveAttempts ==
    /\ requests <= 5
    /\ Len(history) = requests
    /\ (Len(history) = 5 /\ \A i \in 1..5 : SpecRetryableStatus(history[i]))
         => /\ fpc = "done"
            /\ result.act = "raise"
            /\ result.exc = "VastAPIError"
            /\ result.about = history[5]
            /\ result.status = (IF lastResp.kind = "http" THEN lastResp.status ELSE -1)

AtMostFiveAttempts_Witness ==
    /\ fpc = "done"
    /\ history = <<0, 503, 429, 0, 504>>
    /\ result.status = 504

\* no member other than offers is an array
OnlyOffersArray(items) ==
    \A i \in 1..Len(items) : items[i].v.t = "list" => items[i].k = "offers"

RetryableAlwaysRetried ==
    (requests \in 1..4 /\ SpecRetryable(lastResp))
        => (fpc = "running" /\ lastSleep.kind # "none")

\* the outcomes section 4.1 calls fatal for the call
FatalOutcome(o) ==
    /\ o.kind = "http"
    /\ \/ o.status = 200 /\ ~HasJson(o.ctype)
       \/ o.status = 200 /\ o.body.t = "malformed"
       \/ o.status = 200 /\ o.body.t # "obj"
       \/ o.status = 200 /\ \A i \in 1..Len(o.body.items) : o.body.items[i].v.t # "list"
       \/ o.status # 200 /\ ~SpecRetryable(o)

\* C4: a 200 with a non-JSON content type, with malformed JSON or with no
\* array value, and a status that is neither 200 nor retryable, end the call
\* at once with an error: no sleep is taken and no further request follows.
FatalNotRetried ==
    (requests > 0 /\ FatalOutcome(lastResp))
        => /\ fpc = "done"
           /\ result.act = "raise"
           /\ lastSleep.kind = "none"
           /\ sleeps = requests - 1

FatalNotRetried_Witness ==
    /\ fpc = "done"
    /\ history = <<503, 0, 404>>
    /\ result.act = "raise"
    /\ sleeps = 2

\* C5, as claimed: a finished call has returned a list or raised
\* VastAPIError, and nothing else.
ReturnsListOrVastAPIError ==
    fpc = "done" => (result.act = "return"
                        \/ (result.act = "raise" /\ result.exc = "VastAPIError"))

\* a computed backoff after failed attempt n: min(cap, base * n) plus at most 10%
ComputedBackoff(sl, n) ==
    LET d == IF 360 * n <= 1440 THEN 360 * n ELSE 1440
    IN  /\ sl.kind = "backoff"
        /\ sl.dur >= d
        /\ 10 * (sl.dur - d) <= d

UsableHint(h) == h # NoHeader /\ h # "" /\ h \notin {HttpDate, "-5", "inf"}

-----------------------------------------------------------------------------
(* Properties of the poll loop (Spec, FairSpec)                            *)

\* the rows of offers_raw, published or still in the open transaction
SinkRows == committed \o pending

RowsAt(rows, t) == SelectSeq(rows, LAMBDA r : r.ts = t)

InCycle == pc \in {"fetch_available", "fetch_rented", "fetch_unavailable", "insert", "except"}

\* C7: once the loop has started no error ends it: the process never exits,
\* the backoff it sleeps is at most 1440 s, and from every except block the
\* loop returns to its top and, while the model's horizon allows another
\* cycle, starts the next cycle.
LoopNeverEnds ==
    /\ [][pc \notin {"startup", "exited"} => pc' # "exited"]_vars
    /\ [](delay <= 1440)
    /\ (pc = "except") ~> (pc = "top")
    /\ (pc = "except" /\ cycle < MaxCycles) ~> (pc = "fetch_available")

LoopNeverEnds_Witness ==
    /\ pc = "fetch_available"
    /\ backoff_attempt = 2
    /\ raised.exc = "ProgrammingError"

\* C8, as claimed: the delay after the n-th consecutive failed cycle grows
\* exponentially with n up to the cap, and the count is zero after a
\* successful cycle.
LoopBackoffExponential ==
    /\ lastCycle = "failed" => delay = Min(1440, 360 * (2 ^ (backoff_attempt - 1)))
    /\ lastCycle = "ok" => backoff_attempt = 0

\* C8, amended: the delay after the n-th consecutive failed cycle grows
\* linearly, min(1440, 360 * n), and the count is zero after a successful
\* cycle.
LoopBackoffLinear ==
    /\ lastCycle = "failed" =>
          /\ backoff_attempt >= 1
          /\ delay = (IF 360 * backoff_attempt <= 1440 THEN 360 * backoff_attempt ELSE 1440)
    /\ lastCycle = "ok" => backoff_attempt = 0
    /\ lastCycle = "none" => backoff_attempt = 0

LoopBackoffLinear_Witness ==
    /\ lastCycle = "failed"
    /\ backoff_attempt = 3
    /\ delay = 1080

\* C9: the rows a cycle inserts all carry the ts read at the start of that
\* cycle; ts is not read again during the cycle; and every later cycle,
\* a re-run after a failure included, has a ts of its own.
OneTsPerCycle ==
    /\ \A c \in 1..Len(cycleLog) :
          /\ \A i \in 1..Len(cycleLog[c].batch) : cycleLog[c].batch[i].ts = cycleLog[c].ts
          /\ RowsAt(SinkRows, cycleLog[c].ts)
                = SubSeq(cycleLog[c].batch, 1, cycleLog[c].executed)
    /\ \A r \in 1..Len(SinkRows) : \E c \in 1..Len(cycleLog) : SinkRows[r].ts = cycleLog[c].ts
    /\ \A c1, c2 \in 1..Len(cycleLog) : c1 < c2 => cycleLog[c1].ts < cycleLog[c2].ts
    /\ InCycle => ts = cycleLog[cycle].ts

OneTsPerCycle_Witness ==
    /\ lastCycle = "ok"
    /\ cycle = 2
    /\ cycleLog[1].fetched # Partitions
    /\ Len(committed) = 2
    /\ committed[1].availability_state = "rented"
    /\ committed[2].availability_state = "unavailable"
    /\ committed[1].ts = committed[2].ts
    /\ committed[1].ts = cycleLog[2].ts

\* C10, as claimed: the published rows with a given timestamp are the whole
\* batch of a cycle whose three fetches all returned.
AtomicSample ==
    \A r \in 1..Len(committed) :
        \E c \in 1..Len(cycleLog) :
            /\ cycleLog[c].ts = committed[r].ts
            /\ cycleLog[c].fetched = Partitions
            /\ RowsAt(committed, committed[r].ts) = cycleLog[c].batch


-----------------------------------------------------------------------------
(* Properties of normalize (NormSpec)                                      *)

\* the call has returned a record
Returned == npc = "done" /\ nres.exc = ""

\* C11, as claimed: for every raw record, ts and source state the call
\* returns a record with all 16 fields and never raises.  Refuted: a
\* rentable, rented, verified or deverified that is a NaN or an infinite
\* float raises from int(), a non-text city or country_code from str.join.
NormalizeNeverRaises ==
    npc = "done" => (nres.exc = "" /\ DOMAIN nres.rec = Fields)

\* the tokens of boolean coercion, however cased or padded
IsTrueToken(x) == x.t = "str" /\ StripLower(x.s) \in TrueTokens
IsFalseToken(x) == x.t = "str" /\ StripLower(x.s) \in FalseTokens

\* C12, as claimed: a verification string "verified" gives verified=1 and
\* deverified=0, "deverified" gives verified=0 and deverified=1, whatever
\* verified, is_verified, deverified and is_vm_deverified hold, and the
\* flags of a record are never null.  Refuted: is_vm_deverified = true is
\* applied after the string, so "verified" can come out with deverified=1.
VerificationStringWins ==
    Returned =>
        /\ Get(noffer, "verification") = VStr("verified")
              => (nres.rec.verified = VInt(1) /\ nres.rec.deverified = VInt(0))
        /\ Get(noffer, "verification") = VStr("deverified")
              => (nres.rec.verified = VInt(0) /\ nres.rec.deverified = VInt(1))
        /\ nres.rec.verified \in {VInt(0), VInt(1)}
        /\ nres.rec.deverified \in {VInt(0), VInt(1)}

\* what the claimed coercion gives for raw value x: 1 for true, numeric 1
\* and the truthy tokens, 0 for false, numeric 0 and the falsy tokens, null
\* for everything else
ClaimedBool(x) ==
    IF x = VTrue \/ x = VInt(1) \/ x = VFloat(10) \/ IsTrueToken(x) THEN VInt(1)
    ELSE IF x = VFalse \/ x = VInt(0) \/ x = VFloat(0) \/ IsFalseToken(x) THEN VInt(0)
    ELSE VNone

\* C13, as claimed: the coerced rentable and rented of a record are 1
\* exactly for true, numeric 1 and the truthy tokens, 0 exactly for false,
\* numeric 0 and the falsy tokens, and null for every other raw value,
\* other numbers included.  Refuted: every number is coerced by
\* int(x) != 0, so 2 and -1 give 1 and 0.5 gives 0.
BoolCoercionZeroOne ==
    Returned =>
        /\ nres.rec.rentable = ClaimedBool(Get(noffer, "rentable"))
        /\ nres.rec.rented = ClaimedBool(Get(noffer, "rented"))

\* the three partitions a source-state hint may name
PartitionHints == {VStr("available"), VStr("rented"), VStr("unavailable")}

\* C14: the availability_state of a record is the source-state hint when
\* that is available, rented or unavailable, whatever the flags; with no
\* hint it is available for rentable=1 and rented=0, rented for rented=1,
\* unavailable for rentable=0 and rented=0, unknown otherwise; it is always
\* one of the four values.
AvailabilityFromHintOrFlags ==
    Returned =>
        LET a == nres.rec.availability_state
            rentable_int == nres.rec.rentable
            rented_int == nres.rec.rented
        IN  /\ a \in {"available", "rented", "unavailable", "unknown"}
            /\ nsrc \in PartitionHints => a = nsrc.s
            /\ nsrc = VNone =>
                  /\ (rentable_int = VInt(1) /\ rented_int = VInt(0)) <=> a = "available"
                  /\ rented_int = VInt(1) <=> a = "rented"
                  /\ (rentable_int = VInt(0) /\ rented_int = VInt(0)) <=> a = "unavailable"

\* a record fetched from the rented partition whose own flags say available
AvailabilityFromHintOrFlags_Witness ==
    /\ Returned
    /\ nsrc = VStr("rented")
    /\ Get(noffer, "rentable") = VTrue
    /\ Get(noffer, "rented") = VFalse
    /\ nres.rec.rentable = VInt(1)
    /\ nres.rec.rented = VInt(0)
    /\ nres.rec.availability_state = "rented"

-----------------------------------------------------------------------------
(* Properties of _run_occupancy (OccSpec)                                  *)

\* the seconds (in ticks) credited to entity id by the intervals log[1..n]
RECURSIVE CreditedTo(_, _, _)
CreditedTo(log, n, id) ==
    IF n = 0 THEN 0
    ELSE CreditedTo(log, n - 1, id)
            + (IF log[n].offer_id = id THEN Max(log[n].to - log[n].from, 0) ELSE 0)

\* the end-to-end scenario of section 8: offer 5 seen available at 00:00 and
\* rented at 01:00, window [00:00, 02:00], poll interval 3600 s
ScenarioStore ==
    {[offer_id |-> 5, ts |-> 0, rentable |-> 1, rented |-> 0],
     [offer_id |-> 5, ts |-> 3600, rentable |-> 0, rented |-> 1]}
ScenarioArgs == Args(Sec(0), Sec(7200), 3600, 2, 0, NoneVal)
ScenarioRow ==
    [offer_id |-> 5, samples |-> 2, total_hours |-> 2000,
     available_hours |-> 1000, assumed_rented_hours |-> 1000,
     api_rented_hours |-> 1000, unknown_hours |-> 0,
     available_pct |-> 5000, assumed_rented_pct |-> 5000,
     api_rented_pct |-> 5000, unknown_pct |-> 0]

\* C15: the state of a row is held until the ts of the next row of the same
\* entity, however far that is, and the state of an entity's last row for
\* the poll interval (both cut at until); the entity's total is the sum of
\* these holds; the scenario of section 8 reports available 1.0 h,
\* assumed_rented 1.0 h, api_rented 1.0 h and total 2.0 h for offer 5.
HeldUntilNextSample ==
    /\ \A i \in 1..Len(credited) :
          LET last == i = Len(orows) \/ orows[i + 1].offer_id # orows[i].offer_id
              held_to == IF last
                            THEN parse_ts(orows[i].ts) + Sec(OccPollInterval(oargs.poll_env))
                            ELSE parse_ts(orows[i + 1].ts)
          IN  /\ credited[i].offer_id = orows[i].offer_id
              /\ credited[i].to = Min(held_to, UntilDt(store, oargs))
              /\ credited[i].from \in {parse_ts(orows[i].ts), SinceDt(store, oargs)}
    /\ \A id \in DOMAIN stats :
          stats[id].total_sec = CreditedTo(credited, Len(credited), id)
    /\ (opc = "done" /\ store = ScenarioStore /\ oargs = ScenarioArgs)
          => oout.rows = <<ScenarioRow>>

\* the scenario of section 8, reported
HeldUntilNextSample_Witness ==
    /\ opc = "done"
    /\ store = ScenarioStore
    /\ oargs = ScenarioArgs
    /\ credited = <<[offer_id |-> 5, from |-> Sec(0), to |-> Sec(3600)],
                    [offer_id |-> 5, from |-> Sec(3600), to |-> Sec(7200)]>>
    /\ oout.rows = <<ScenarioRow>>

\* C16: after any prefix of the rows, every entity has available_sec +
\* assumed_rented_sec + unknown_sec = total_sec and
\* 0 <= api_rented_sec <= total_sec.
DurationConservation ==
    \A id \in DOMAIN stats :
        /\ stats[id].available_sec + stats[id].assumed_rented_sec
              + stats[id].unknown_sec = stats[id].total_sec
        /\ 0 <= stats[id].api_rented_sec
        /\ stats[id].api_rented_sec <= stats[id].total_sec

\* a proper prefix processed, with time in the unknown bucket and in another
\* one, api_rented below the total
DurationConservation_Witness ==
    /\ opc = "loop"
    /\ oidx <= Len(orows)
    /\ \E id \in DOMAIN stats :
          /\ stats[id].unknown_sec > 0
          /\ stats[id].assumed_rented_sec > 0
          /\ stats[id].api_rented_sec > 0
          /\ stats[id].api_rented_sec < stats[id].total_sec

\* the stored rows of r's entity that come after r
Later(r) == {q \in store : q.offer_id = r.offer_id /\ q.ts > r.ts}
NextTs(r) == CHOOSE t \in {q.ts : q \in Later(r)} : \A q \in Later(r) : t <= q.ts

\* C17, as claimed: a stored sample before since whose entity's next sample
\* is after since is credited from since to min(next, until), and the hold
\* of an entity's last sample is cut at until.  Refuted: the query selects
\* ts >= since only, so the earlier sample never reaches the loop and the
\* time from since to the next sample is credited to nothing.
ClippedAtSince ==
    (opc = "done" /\ oout.kind = "table" /\ store # {}) =>
        /\ \A r \in store :
              (/\ parse_ts(r.ts) < SinceDt(store, oargs)
               /\ \A q \in store : (q.offer_id = r.offer_id /\ q.ts = r.ts) => q = r
               /\ Later(r) # {}
               /\ parse_ts(NextTs(r)) > SinceDt(store, oargs))
              => \E i \in 1..Len(credited) :
                    /\ credited[i].offer_id = r.offer_id
                    /\ credited[i].from = SinceDt(store, oargs)
                    /\ credited[i].to = Min(parse_ts(NextTs(r)), UntilDt(store, oargs))
        /\ \A i \in 1..Len(credited) :
              (/\ i = Len(orows) \/ orows[i + 1].offer_id # orows[i].offer_id
               /\ parse_ts(orows[i].ts) + Sec(OccPollInterval(oargs.poll_env))
                     > UntilDt(store, oargs))
              => credited[i].to = UntilDt(store, oargs)

\* C18, as claimed: the result is ordered by assumed_rented_pct descending,
\* rows of equal assumed_rented_pct by api_rented_hours descending, and the
\* limit keeps the first N rows of that order.  Refuted: the second sort key
\* is assumed_rented_hours.
SortedByPctThenApiHours ==
    (opc = "done" /\ oout.kind = "table") =>
        /\ \A i, j \in 1..Len(oout.sorted) :
              i < j =>
                \/ oout.sorted[i].assumed_rented_pct > oout.sorted[j].assumed_rented_pct
                \/ /\ oout.sorted[i].assumed_rented_pct = oout.sorted[j].assumed_rented_pct
                   /\ oout.sorted[i].api_rented_hours >= oout.sorted[j].api_rented_hours
        /\ oargs.limit # NoneVal
              => oout.rows = SubSeq(oout.sorted, 1, Min(oargs.limit, Len(oout.sorted)))

\* the window asked for is inverted or empty
Inverted ==
    IF store = {}
    THEN oargs.since # NoneVal /\ oargs.until # NoneVal /\ oargs.until <= oargs.since
    ELSE UntilDt(store, oargs) <= SinceDt(store, oargs)

\* C19, as claimed: whatever the store holds, a report with until <= since
\* ends with the usage error, a non-zero exit and no table, and a report
\* over a valid window holding no sample ends with an empty table and no
\* error.  Refuted: on an empty store the report prints an empty table and
\* returns before it looks at the window.
InvertedWindowIsUsageError ==
    opc = "done" =>
        /\ Inverted => (oout.kind = "error" /\ oout.code # 0)
        /\ (/\ ~Inverted
            /\ \A r \in store : \/ parse_ts(r.ts) < SinceDt(store, oargs)
                                \/ parse_ts(r.ts) > UntilDt(store, oargs))
              => (oout.kind = "table" /\ oout.rows = <<>> /\ oout.code = 0)

-----------------------------------------------------------------------------
(* Property of the sink (Spec)                                             *)

-----------------------------------------------------------------------------
(* Property of the credited intervals (OccSpec)                            *)

\* the rows processed so far whose state was held for a positive time
Held == {i \in 1..Len(credited) : credited[i].to > credited[i].from}

\* C21: for a window with since < until the intervals credited to one
\* entity lie in [since, until] and do not overlap one another, so every
\* entity has 0 <= total_sec <= until - since, also when the entity has
\* several rows with the same ts, in whichever order the query returns them.
IntervalsDisjointInWindow ==
    opc \in {"loop", "done"} =>
        /\ \A i \in Held :
              /\ SinceDt(store, oargs) <= credited[i].from
              /\ credited[i].to <= UntilDt(store, oargs)
        /\ \A i, j \in Held :
              (i < j /\ credited[i].offer_id = credited[j].offer_id)
                 => credited[i].to <= credited[j].from
        /\ \A id \in DOMAIN stats :
              /\ 0 <= stats[id].total_sec
              /\ stats[id].total_sec <= UntilDt(store, oargs) - SinceDt(store, oargs)

\* an entity with two rows of one ts and a later row, all processed: the
\* first of the two is held for no time, and the entity fills a window
\* that starts between two seconds
IntervalsDisjointInWindow_Witness ==
    /\ opc = "done"
    /\ Len(orows) = 3
    /\ orows[1].offer_id = orows[3].offer_id
    /\ orows[1].ts = orows[2].ts
    /\ orows[1] # orows[2]
    /\ orows[2].ts < orows[3].ts
    /\ credited[1].to = credited[1].from
    /\ parse_ts(orows[2].ts) < SinceDt(store, oargs)
    /\ credited[2].from = SinceDt(store, oargs)
    /\ credited[3].to = UntilDt(store, oargs)
    /\ stats[orows[1].offer_id].total_sec = UntilDt(store, oargs) - SinceDt(store, oargs)

=============================================================================
